---- MODULE Spec2Model ----
(***************************************************************************)
(* Model of create_duckdb.py: parse_schema_cypher, map_duckdb_type and     *)
(* create_duckdb_from_parquet.                                             *)
(*                                                                         *)
(* Text is modelled at token level.  A DDL text is a sequence of           *)
(* statements; a statement carries its kind ("node", "rel", or "other" for *)
(* text neither pattern matches), the table name, the endpoint names and   *)
(* the comma-separated pieces of its parenthesised body, each piece being  *)
(* the sequence of its whitespace-separated words.  A parquet column name  *)
(* is the sequence of its dot-separated segments.                          *)
(***************************************************************************)
EXTENDS Integers, Sequences, FiniteSets, TLC

VARIABLES ddl, files, db, pc, con, node_tables, edge_tables, nIdx, eIdx,
          warnings, created

vars == <<ddl, files, db, pc, con, node_tables, edge_tables, nIdx, eIdx,
          warnings, created>>

(* ------------------------------ bounds --------------------------------- *)

\* Longest DDL text, in statements.
MaxDecls == 3

\* Most columns of a node table's parquet file.
MaxNodeFileCols == 2

\* Most columns of an edge table's parquet file.
MaxEdgeFileCols == 3

(* --------------------------- string helpers ---------------------------- *)

\* str.lower() on the identifiers the model uses.
Lower(s) ==
    CASE s = "ID" -> "id"
      [] s = "Id" -> "id"
      [] s = "Age" -> "age"
      [] s = "AGE" -> "age"
      [] s = "Name" -> "name"
      [] s = "Since" -> "since"
      [] OTHER -> s

\* str.upper() on the words that can spell the phrase PRIMARY KEY.
Upper(s) ==
    CASE s = "primary" -> "PRIMARY"
      [] s = "Primary" -> "PRIMARY"
      [] s = "key" -> "KEY"
      [] s = "Key" -> "KEY"
      [] OTHER -> s

\* Python's None for pk_col.
None == "<None>"

(* --------------------------- parse_schema_cypher ----------------------- *)

\* re.match(r'`?(\w+)`?\s+(\w+)', col_def): a name word then a type word.
ColMatch(col_def) == Len(col_def) >= 2

\* 'PRIMARY KEY' in col_def.upper()
HasPrimaryKey(col_def) ==
    \E i \in 1..(Len(col_def) - 1) :
        Upper(col_def[i]) = "PRIMARY" /\ Upper(col_def[i + 1]) = "KEY"

\* The loop over columns_str.split(',') of a node table: columns and pk_col.
RECURSIVE NodeColumns(_, _, _)
NodeColumns(defs, columns, pk_col) ==
    IF defs = <<>> THEN [columns |-> columns, pk_col |-> pk_col]
    ELSE LET col_def == Head(defs) IN
         IF ColMatch(col_def)
         THEN NodeColumns(Tail(defs),
                          Append(columns, <<col_def[1], col_def[2]>>),
                          IF HasPrimaryKey(col_def) THEN col_def[1] ELSE pk_col)
         ELSE NodeColumns(Tail(defs), columns, pk_col)

\* Mutant of NodeEntry: the PRIMARY KEY marking is ignored.
NodeEntryFirstColumn(stmt) ==
    LET r == NodeColumns(stmt.cols, <<>>, None) IN
    [columns |-> r.columns,
     pk_col  |-> IF r.columns # <<>> THEN r.columns[1][1] ELSE "id"]

\* The value stored in node_tables[table_name].
NodeEntry(stmt) ==
    LET r == NodeColumns(stmt.cols, <<>>, None) IN
    [columns |-> r.columns,
     pk_col  |-> IF r.pk_col # None THEN r.pk_col
                 ELSE IF r.columns # <<>> THEN r.columns[1][1] ELSE "id"]

\* The loop over props_str.split(',') of a rel table.
RECURSIVE RelColumns(_, _)
RelColumns(defs, columns) ==
    IF defs = <<>> THEN columns
    ELSE LET col_def == Head(defs) IN
         IF col_def # <<>> /\ ColMatch(col_def)
         THEN RelColumns(Tail(defs), Append(columns, <<col_def[1], col_def[2]>>))
         ELSE RelColumns(Tail(defs), columns)

\* The value stored in edge_tables[rel_name].
RelEntry(stmt) ==
    [from_node |-> stmt.from, to_node |-> stmt.to,
     columns   |-> RelColumns(stmt.cols, <<>>)]

\* node_pattern: CREATE NODE TABLE name ( one or more characters other than ')' ).
NodeMatches(stmt) == stmt.kind = "node" /\ stmt.cols # <<>>

\* rel_pattern: CREATE REL TABLE name ( FROM a TO b ... ).
RelMatches(stmt) == stmt.kind = "rel" /\ stmt.from # "" /\ stmt.to # ""

\* A Python dict: the keys in insertion order and the mapping.
EmptyDict == [order |-> <<>>, map |-> <<>>]

\* Mutant of DictPut: the first declaration of a name wins.
DictPutFirstWins(d, k, v) ==
    IF k \in DOMAIN d.map THEN d
    ELSE [order |-> Append(d.order, k), map |-> (k :> v) @@ d.map]

\* d[k] = v
DictPut(d, k, v) ==
    [order |-> IF k \in DOMAIN d.map THEN d.order ELSE Append(d.order, k),
     map   |-> (k :> v) @@ d.map]

\* for match in re.finditer(node_pattern, content): node_tables[name] = ...
RECURSIVE ParseNodeTables(_, _)
ParseNodeTables(text, d) ==
    IF text = <<>> THEN d
    ELSE LET stmt == Head(text) IN
         IF NodeMatches(stmt)
         THEN ParseNodeTables(Tail(text), DictPut(d, stmt.name, NodeEntry(stmt)))
         ELSE ParseNodeTables(Tail(text), d)

\* for match in re.finditer(rel_pattern, content): edge_tables[name] = ...
RECURSIVE ParseEdgeTables(_, _)
ParseEdgeTables(text, d) ==
    IF text = <<>> THEN d
    ELSE LET stmt == Head(text) IN
         IF RelMatches(stmt)
         THEN ParseEdgeTables(Tail(text), DictPut(d, stmt.name, RelEntry(stmt)))
         ELSE ParseEdgeTables(Tail(text), d)

(* ------------------------------ inputs --------------------------------- *)

NodeStmt(name, cols) ==
    [kind |-> "node", name |-> name, from |-> "", to |-> "", cols |-> cols]

RelStmt(name, from, to, cols) ==
    [kind |-> "rel", name |-> name, from |-> from, to |-> to, cols |-> cols]

OtherStmt(name, cols) ==
    [kind |-> "other", name |-> name, from |-> "", to |-> "", cols |-> cols]

\* Statements the parser is exercised on.
ParseStmts ==
    { NodeStmt("Person", << <<"id", "INT64", "PRIMARY", "KEY">>, <<"name", "STRING">> >>),
      NodeStmt("Person", << <<"name", "STRING">>, <<"id", "INT64", "primary", "key">> >>),
      NodeStmt("Person", << <<"name", "STRING">>, <<"Age", "INT32">> >>),
      NodeStmt("Person", << <<"id", "INT64", "PRIMARY", "KEY">>,
                            <<"uid", "INT64", "PRIMARY", "KEY">> >>),
      NodeStmt("City", << <<"x">> >>),
      NodeStmt("Person", <<>>),
      NodeStmt("City", << <<>>, <<"name", "STRING">> >>),
      RelStmt("Knows", "Person", "City", <<>>),
      RelStmt("Knows", "Person", "Person", << <<>>, <<"since", "DATE">> >>),
      RelStmt("Knows", "City", "Person", << <<>>, <<"id", "INT64">>, <<"since", "DATE">> >>),
      RelStmt("Knows", "", "", << <<"since", "DATE">> >>),
      RelStmt("Person", "City", "City", << <<>>, <<"w">>, <<"weight", "DOUBLE">> >>),
      OtherStmt("Person", << <<"id", "INT64">> >>) }

\* All sequences over S of length at most n.
SeqsUpTo(S, n) == UNION { [1..k -> S] : k \in 0..n }

(* ------------------------------ parser run ----------------------------- *)

InitCommon ==
    /\ pc = "start"
    /\ con = "none"
    /\ node_tables = EmptyDict
    /\ edge_tables = EmptyDict
    /\ nIdx = 1
    /\ eIdx = 1
    /\ warnings = {}
    /\ created = {}

InitParse ==
    /\ ddl \in SeqsUpTo(ParseStmts, MaxDecls)
    /\ files = <<>>
    /\ db = <<>>
    /\ InitCommon

\* node_tables, edge_tables = parse_schema_cypher(schema_path)
ParseSchema ==
    /\ pc = "start"
    /\ node_tables' = ParseNodeTables(ddl, EmptyDict)
    /\ edge_tables' = ParseEdgeTables(ddl, EmptyDict)
    /\ pc' = "parsed"
    /\ UNCHANGED <<ddl, files, db, con, nIdx, eIdx, warnings, created>>

\* schema_path.read_text() raises: the run ends before anything is opened.
SchemaUnreadable ==
    /\ pc = "start"
    /\ pc' = "failed_schema"
    /\ UNCHANGED <<ddl, files, db, con, node_tables, edge_tables, nIdx, eIdx,
                   warnings, created>>

NextParse == ParseSchema \/ SchemaUnreadable

SpecParse == InitParse /\ [][NextParse]_vars

(* ---------------------------- map_duckdb_type -------------------------- *)

\* type_map.get(cypher_type, 'VARCHAR')
map_duckdb_type(cypher_type) ==
    CASE cypher_type = "INT64" -> "BIGINT"
      [] cypher_type = "INT32" -> "INTEGER"
      [] cypher_type = "INT16" -> "SMALLINT"
      [] cypher_type = "INT8" -> "TINYINT"
      [] cypher_type = "UINT64" -> "UBIGINT"
      [] cypher_type = "UINT32" -> "UINTEGER"
      [] cypher_type = "UINT16" -> "USMALLINT"
      [] cypher_type = "UINT8" -> "UTINYINT"
      [] cypher_type = "DOUBLE" -> "DOUBLE"
      [] cypher_type = "FLOAT" -> "FLOAT"
      [] cypher_type = "BOOL" -> "BOOLEAN"
      [] cypher_type = "STRING" -> "VARCHAR"
      [] cypher_type = "DATE" -> "DATE"
      [] cypher_type = "TIMESTAMP" -> "TIMESTAMP"
      [] cypher_type = "TIME" -> "TIME"
      [] cypher_type = "BLOB" -> "BLOB"
      [] cypher_type = "JSON" -> "VARCHAR"
      [] OTHER -> "VARCHAR"

(* ------------------------- column reconciliation ----------------------- *)

\* col.split('.')[-1] if '.' in col else col
BaseName(col) == col[Len(col)]

\* col.split('.')[0] if '.' in col else ''
Prefix(col) == IF Len(col) > 1 THEN col[1] ELSE ""

\* Mutant of LookupType: the declared name is compared case-sensitively.
RECURSIVE LookupTypeCaseSensitive(_, _)
LookupTypeCaseSensitive(schema_columns, base_name) ==
    IF schema_columns = <<>> THEN "VARCHAR"
    ELSE IF Head(schema_columns)[1] = base_name
         THEN map_duckdb_type(Head(schema_columns)[2])
         ELSE LookupTypeCaseSensitive(Tail(schema_columns), base_name)

\* col_type = 'VARCHAR'; for schema_col_name, schema_col_type in schema['columns']: ...
RECURSIVE LookupType(_, _)
LookupType(schema_columns, base_name) ==
    IF schema_columns = <<>> THEN "VARCHAR"
    ELSE IF Lower(Head(schema_columns)[1]) = Lower(base_name)
         THEN map_duckdb_type(Head(schema_columns)[2])
         ELSE LookupType(Tail(schema_columns), base_name)

ColDef(name, type) == [name |-> name, type |-> type]

\* col_defs of a node table, one per parquet column.
NodeColDefs(parquet_cols, schema) ==
    [i \in 1..Len(parquet_cols) |->
        ColDef(BaseName(parquet_cols[i]),
               LookupType(schema.columns, BaseName(parquet_cols[i])))]

\* col_names of a node table.
NodeColNames(parquet_cols) ==
    [i \in 1..Len(parquet_cols) |-> BaseName(parquet_cols[i])]

\* select_parts of a node table: the parquet columns, quoted.
NodeSelectParts(parquet_cols) ==
    [i \in 1..Len(parquet_cols) |-> [col |-> parquet_cols[i], alias |-> ""]]

\* if base_name.lower() == 'id': continue
IsIdColumn(col) == Lower(BaseName(col)) = "id"

\* Mutant of NotIdColumn: only a column spelled exactly id is skipped.
NotIdColumnExact(col) == BaseName(col) # "id"

\* A parquet column that becomes a property column of an edge table.
NotIdColumn(col) == ~IsIdColumn(col)

\* col_defs of an edge table: source, target, then the non-id parquet columns.
EdgeColDefs(parquet_cols, schema) ==
    LET props == SelectSeq(parquet_cols, NotIdColumn) IN
    <<ColDef("source", "BIGINT"), ColDef("target", "BIGINT")>> \o
    [i \in 1..Len(props) |->
        ColDef(BaseName(props[i]), LookupType(schema.columns, BaseName(props[i])))]

\* col_names of an edge table.
EdgeColNames(parquet_cols) ==
    LET props == SelectSeq(parquet_cols, NotIdColumn) IN
    <<"source", "target">> \o [i \in 1..Len(props) |-> BaseName(props[i])]

\* select_parts of an edge table: every parquet column in file order; an id
\* column with prefix a or b carries the alias source or target.
EdgeSelectParts(parquet_cols) ==
    [i \in 1..Len(parquet_cols) |->
        LET col == parquet_cols[i] IN
        [col   |-> col,
         alias |-> IF IsIdColumn(col)
                   THEN (IF Prefix(col) = "a" THEN "source"
                         ELSE IF Prefix(col) = "b" THEN "target" ELSE "")
                   ELSE ""]]

(* --------------------------- the database engine ----------------------- *)

TableName(prefix, name) == [prefix |-> prefix, name |-> name]

\* CREATE TABLE raises: the name is taken, or two columns share a name
\* (identifiers are case-insensitive).
CreateFails(d, tname, col_defs) ==
    \/ tname \in DOMAIN d
    \/ \E i, j \in DOMAIN col_defs :
          i # j /\ Lower(col_defs[i].name) = Lower(col_defs[j].name)

\* The table right after CREATE TABLE: no rows.
NewTable(col_defs) ==
    [cols |-> col_defs, src |-> <<>>, filled |-> FALSE, stale |-> FALSE]

\* INSERT INTO t (col_names) SELECT select_parts raises at bind time: the two
\* lists differ in length.
InsertBindFails(col_names, select_parts) == Len(col_names) # Len(select_parts)

\* The table after the INSERT: the j-th selected expression lands in the
\* column named by the j-th target name, whatever its alias.
Inserted(table, col_names, select_parts) ==
    [table EXCEPT
        !.src = [k \in DOMAIN table.cols |->
                    select_parts[CHOOSE j \in DOMAIN col_names :
                                     col_names[j] = table.cols[k].name].col],
        !.filled = TRUE]

(* --------------------------- the data directory ------------------------ *)

\* No file of that name.
Absent == <<>>

FileExists(f) == f \in DOMAIN files /\ files[f] # Absent

\* parquet_dir / f"{table_name}.parquet"
NodeFile(table_name) == <<table_name>>

\* f"{rel_name}_{from_node}_{to_node}.parquet", else f"{rel_name}.parquet"
EdgeFile(rel_name, schema) ==
    IF FileExists(<<rel_name, schema.from_node, schema.to_node>>)
    THEN <<rel_name, schema.from_node, schema.to_node>>
    ELSE <<rel_name>>

(* ------------------------ materializer inputs -------------------------- *)

\* All sequences over S of length 1..n without a repeated element.
InjSeqs(S, n) ==
    { q \in UNION { [1..k -> S] : k \in 1..n } :
        \A i, j \in DOMAIN q : i # j => q[i] # q[j] }

PersonStmt ==
    NodeStmt("Person", << <<"id", "INT64", "PRIMARY", "KEY">>, <<"Age", "INT32">> >>)

CityStmt == NodeStmt("City", << <<"name", "STRING">> >>)

\* DDL texts the materializer is run on.
MatDDLs ==
    { <<PersonStmt, CityStmt,
        RelStmt("Knows", "Person", "City", << <<>>, <<"since", "DATE">> >>)>>,
      <<CityStmt,
        RelStmt("Knows", "Person", "City",
                << <<>>, <<"Since", "TIMESTAMP">>, <<"id", "INT64">> >>),
        PersonStmt>>,
      <<RelStmt("Knows", "Person", "Person", <<>>), CityStmt>> }

NodeFileColumns == { <<"a", "id">>, <<"a", "age">>, <<"b", "Id">> }

EdgeFileColumns == { <<"a", "id">>, <<"b", "id">>, <<"r", "since">>, <<"ID">> }

FileNames == { <<"Person">>, <<"City">>, <<"Knows", "Person", "City">>, <<"Knows">> }

\* Data directories: which files exist and the columns of each.
DataDirs ==
    { [f \in FileNames |->
          CASE f = <<"Person">> -> p
            [] f = <<"City">> -> c
            [] f = <<"Knows", "Person", "City">> -> k
            [] OTHER -> s] :
        p \in InjSeqs(NodeFileColumns, MaxNodeFileCols) \cup {Absent},
        c \in { Absent, << <<"name">>, <<"c", "pop">> >> },
        k \in InjSeqs(EdgeFileColumns, MaxEdgeFileCols) \cup {Absent},
        s \in { Absent,
                 << <<"a", "id">>, <<"b", "id">>, <<"r", "since">> >>,
                 << <<"a", "id">>, <<"b", "id">>, <<"r", "since">>, <<"e", "Since">> >> } }

\* A table an earlier run or another program left in the destination.
StaleTable ==
    [cols |-> <<ColDef("id", "BIGINT")>>, src |-> << <<"id">> >>,
     filled |-> TRUE, stale |-> TRUE]

\* Contents of the destination database before the run.
InitialDbs ==
    { [t \in T |-> StaleTable] :
        T \in { {},
                { TableName("nodes_", "Person"), TableName("edges_", "Knows"),
                  TableName("", "keep_me") },
                { TableName("nodes_", "City") },
                { TableName("edges_", "Old") } } }

Init ==
    /\ ddl \in MatDDLs
    /\ files \in DataDirs
    /\ db \in InitialDbs
    /\ InitCommon

(* ---------------------- create_duckdb_from_parquet --------------------- *)

\* con = duckdb.connect(str(output_db))
Connect ==
    /\ pc = "parsed"
    /\ con' = "open"
    /\ pc' = "connected"
    /\ UNCHANGED <<ddl, files, db, node_tables, edge_tables, nIdx, eIdx,
                   warnings, created>>

\* duckdb.connect raises: the destination cannot be opened.
ConnectFails ==
    /\ pc = "parsed"
    /\ pc' = "failed_connect"
    /\ UNCHANGED <<ddl, files, db, con, node_tables, edge_tables, nIdx, eIdx,
                   warnings, created>>

\* The six DROP TABLE IF EXISTS statements.
HardcodedDrops ==
    { TableName("nodes_", n) :
        n \in { "Place", "Event", "Concept", "KnowledgeGraph", "Organization",
                "Person" } }

\* The database after the drops: the six named node tables and every table
\* SHOW TABLES lists whose name starts with edges_.
ResetDb(d) ==
    [t \in { u \in DOMAIN d : u \notin HardcodedDrops /\ u.prefix # "edges_" } |-> d[t]]

Reset ==
    /\ pc = "connected"
    /\ db' = ResetDb(db)
    /\ pc' = "tables"
    /\ UNCHANGED <<ddl, files, con, node_tables, edge_tables, nIdx, eIdx,
                   warnings, created>>

InNodeLoop == pc = "tables" /\ nIdx <= Len(node_tables.order)

InEdgeLoop ==
    /\ pc = "tables"
    /\ nIdx > Len(node_tables.order)
    /\ eIdx <= Len(edge_tables.order)

\* An exception leaves create_duckdb_from_parquet: nothing after it runs.
Raise ==
    /\ pc' = "aborted"
    /\ UNCHANGED <<ddl, files, con, node_tables, edge_tables, nIdx, eIdx,
                   warnings, created>>

\* Mutant of NodeSkip: a missing file is treated as an error.
NodeSkipRaises ==
    /\ InNodeLoop
    /\ ~FileExists(NodeFile(node_tables.order[nIdx]))
    /\ Raise
    /\ UNCHANGED db

\* if not parquet_file.exists(): print(Warning ...); continue
NodeSkip ==
    /\ InNodeLoop
    /\ ~FileExists(NodeFile(node_tables.order[nIdx]))
    /\ warnings' = warnings \cup {TableName("nodes_", node_tables.order[nIdx])}
    /\ nIdx' = nIdx + 1
    /\ UNCHANGED <<ddl, files, db, pc, con, node_tables, edge_tables, eIdx, created>>

\* SELECT * FROM read_parquet(...) LIMIT 1 raises: the file is no parquet file.
NodeReadFails ==
    /\ InNodeLoop
    /\ FileExists(NodeFile(node_tables.order[nIdx]))
    /\ Raise
    /\ UNCHANGED db

\* con.execute(table_create) raises.
NodeCreateFails ==
    /\ InNodeLoop
    /\ FileExists(NodeFile(node_tables.order[nIdx]))
    /\ LET table_name == node_tables.order[nIdx]
           parquet_cols == files[NodeFile(table_name)] IN
       CreateFails(db, TableName("nodes_", table_name),
                   NodeColDefs(parquet_cols, node_tables.map[table_name]))
    /\ Raise
    /\ UNCHANGED db

\* con.execute(insert_sql) raises after the table was created.
NodeInsertFails ==
    /\ InNodeLoop
    /\ FileExists(NodeFile(node_tables.order[nIdx]))
    /\ LET table_name == node_tables.order[nIdx]
           parquet_cols == files[NodeFile(table_name)]
           col_defs == NodeColDefs(parquet_cols, node_tables.map[table_name])
           t == TableName("nodes_", table_name) IN
       /\ ~CreateFails(db, t, col_defs)
       /\ db' = (t :> NewTable(col_defs)) @@ db
    /\ Raise

\* One iteration of the node loop in which every statement succeeds.
NodeCreated ==
    /\ InNodeLoop
    /\ FileExists(NodeFile(node_tables.order[nIdx]))
    /\ LET table_name == node_tables.order[nIdx]
           parquet_cols == files[NodeFile(table_name)]
           col_defs == NodeColDefs(parquet_cols, node_tables.map[table_name])
           col_names == NodeColNames(parquet_cols)
           select_parts == NodeSelectParts(parquet_cols)
           t == TableName("nodes_", table_name) IN
       /\ ~CreateFails(db, t, col_defs)
       /\ ~InsertBindFails(col_names, select_parts)
       /\ db' = (t :> Inserted(NewTable(col_defs), col_names, select_parts)) @@ db
       /\ created' = created \cup {t}
    /\ nIdx' = nIdx + 1
    /\ UNCHANGED <<ddl, files, pc, con, node_tables, edge_tables, eIdx, warnings>>

\* if not parquet_file.exists(): print(Warning ...); continue
EdgeSkip ==
    /\ InEdgeLoop
    /\ LET rel_name == edge_tables.order[eIdx] IN
       /\ ~FileExists(EdgeFile(rel_name, edge_tables.map[rel_name]))
       /\ warnings' = warnings \cup {TableName("edges_", rel_name)}
    /\ eIdx' = eIdx + 1
    /\ UNCHANGED <<ddl, files, db, pc, con, node_tables, edge_tables, nIdx, created>>

\* SELECT * FROM read_parquet(...) LIMIT 1 raises.
EdgeReadFails ==
    /\ InEdgeLoop
    /\ LET rel_name == edge_tables.order[eIdx] IN
       FileExists(EdgeFile(rel_name, edge_tables.map[rel_name]))
    /\ Raise
    /\ UNCHANGED db

\* con.execute(table_create) raises.
EdgeCreateFails ==
    /\ InEdgeLoop
    /\ LET rel_name == edge_tables.order[eIdx]
           schema == edge_tables.map[rel_name]
           parquet_file == EdgeFile(rel_name, schema) IN
       /\ FileExists(parquet_file)
       /\ CreateFails(db, TableName("edges_", rel_name),
                      EdgeColDefs(files[parquet_file], schema))
    /\ Raise
    /\ UNCHANGED db

\* con.execute(insert_sql) raises after the table was created: the column
\* lists differ in length, or a value does not convert to its column's type.
EdgeInsertFails ==
    /\ InEdgeLoop
    /\ LET rel_name == edge_tables.order[eIdx]
           schema == edge_tables.map[rel_name]
           parquet_file == EdgeFile(rel_name, schema)
           t == TableName("edges_", rel_name) IN
       /\ FileExists(parquet_file)
       /\ ~CreateFails(db, t, EdgeColDefs(files[parquet_file], schema))
       /\ db' = (t :> NewTable(EdgeColDefs(files[parquet_file], schema))) @@ db
    /\ Raise

\* One iteration of the edge loop in which every statement succeeds.
EdgeCreated ==
    /\ InEdgeLoop
    /\ LET rel_name == edge_tables.order[eIdx]
           schema == edge_tables.map[rel_name]
           parquet_file == EdgeFile(rel_name, schema)
           t == TableName("edges_", rel_name) IN
       /\ FileExists(parquet_file)
       /\ LET parquet_cols == files[parquet_file]
              col_defs == EdgeColDefs(parquet_cols, schema)
              col_names == EdgeColNames(parquet_cols)
              select_parts == EdgeSelectParts(parquet_cols) IN
          /\ ~CreateFails(db, t, col_defs)
          /\ ~InsertBindFails(col_names, select_parts)
          /\ db' = (t :> Inserted(NewTable(col_defs), col_names, select_parts)) @@ db
       /\ created' = created \cup {t}
    /\ eIdx' = eIdx + 1
    /\ UNCHANGED <<ddl, files, pc, con, node_tables, edge_tables, nIdx, warnings>>

\* con.close()
Close ==
    /\ pc = "tables"
    /\ nIdx > Len(node_tables.order)
    /\ eIdx > Len(edge_tables.order)
    /\ con' = "closed"
    /\ pc' = "done"
    /\ UNCHANGED <<ddl, files, db, node_tables, edge_tables, nIdx, eIdx,
                   warnings, created>>

Next ==
    \/ ParseSchema
    \/ SchemaUnreadable
    \/ Connect
    \/ ConnectFails
    \/ Reset
    \/ NodeSkip
    \/ NodeReadFails
    \/ NodeCreateFails
    \/ NodeInsertFails
    \/ NodeCreated
    \/ EdgeSkip
    \/ EdgeReadFails
    \/ EdgeCreateFails
    \/ EdgeInsertFails
    \/ EdgeCreated
    \/ Close

Spec == Init /\ [][Next]_vars

RunEnded == pc \in {"done", "aborted", "failed_schema", "failed_connect"}

(* ------------------------------ claims --------------------------------- *)

SetMax(S) == CHOOSE x \in S : \A y \in S : y <= x

SetMin(S) == CHOOSE x \in S : \A y \in S : x <= y

IsOutputTable(t) == t.prefix \in {"nodes_", "edges_"}

\* Output tables this run created.
MadeByRun == { t \in DOMAIN db : IsOutputTable(t) /\ ~db[t].stale }

AfterReset == pc = "tables" /\ nIdx = 1 /\ eIdx = 1

\* C1: once the reset step has finished, before the first CREATE TABLE, the
\* destination holds no table whose name starts with nodes_ or edges_.
C1_ResetClearsOutputTables ==
    AfterReset => \A t \in DOMAIN db : ~IsOutputTable(t)

\* C2: a per-table failure does not abort the run: whenever the run has ended
\* after the table loops started, both loops went through every declaration.
C2_BestEffortBatch ==
    pc \in {"done", "aborted"} =>
        /\ nIdx > Len(node_tables.order)
        /\ eIdx > Len(edge_tables.order)

\* C3: when a run has ended, every output table it created holds the rows of
\* its backing file; none is left created but not filled.
C3_NoPartialTable ==
    RunEnded => \A t \in MadeByRun : db[t].filled

\* C4: no run ends with the destination connection still open.
C4_ConnectionReleased ==
    RunEnded => con # "open"

NodeFileMissing(name) == ~(<<name>> \in DOMAIN files /\ files[<<name>>] # <<>>)

EdgeFilesMissing(rel) ==
    LET e == edge_tables.map[rel]
        full == <<rel, e.from_node, e.to_node>> IN
    /\ ~(full \in DOMAIN files /\ files[full] # <<>>)
    /\ ~(<<rel>> \in DOMAIN files /\ files[<<rel>>] # <<>>)

C6_EdgeMappingNoTransposition ==
    \A t \in MadeByRun :
        (/\ t.prefix = "edges_"
         /\ db[t].filled
         /\ { db[t].src[k] : k \in DOMAIN db[t].src }
                \cap { <<"a", "id">>, <<"b", "id">>, <<"ID">> }
              = { <<"a", "id">>, <<"b", "id">> }) =>
            \A k \in DOMAIN db[t].cols :
                LET name == db[t].cols[k].name
                    from == db[t].src[k] IN
                CASE name = "source" -> from = <<"a", "id">>
                  [] name = "target" -> from = <<"b", "id">>
                  [] OTHER -> from[Len(from)] = name

\* C7: a created node table has one column per file column, in file order,
\* named by the file column's last dot-separated segment, typed by the first
\* declared column of the same name ignoring case, VARCHAR when there is none.
C7_NodeTableColumns ==
    \A t \in MadeByRun :
        t.prefix = "nodes_" =>
            LET f == files[<<t.name>>]
                declared == node_tables.map[t.name].columns
                cols == db[t].cols IN
            /\ Len(cols) = Len(f)
            /\ \A i \in 1..Len(f) :
                  LET same == { j \in DOMAIN declared :
                                  Lower(declared[j][1]) = Lower(cols[i].name) } IN
                  /\ cols[i].name = f[i][Len(f[i])]
                  /\ cols[i].type =
                        IF same = {} THEN "VARCHAR"
                        ELSE map_duckdb_type(declared[SetMin(same)][2])

C7_Witness ==
    /\ pc = "done"
    /\ TableName("nodes_", "Person") \in created
    /\ TableName("nodes_", "City") \in created
    /\ \E i \in DOMAIN db[TableName("nodes_", "Person")].cols :
          db[TableName("nodes_", "Person")].cols[i] = ColDef("age", "INTEGER")
    /\ \E i \in DOMAIN db[TableName("nodes_", "City")].cols :
          db[TableName("nodes_", "City")].cols[i] = ColDef("pop", "VARCHAR")

\* The file an edge table was read from.
BackingEdgeFile(rel) ==
    LET e == edge_tables.map[rel]
        full == <<rel, e.from_node, e.to_node>> IN
    IF full \in DOMAIN files /\ files[full] # <<>> THEN files[full] ELSE files[<<rel>>]

NodeDecls(name) ==
    { i \in DOMAIN ddl : ddl[i].kind = "node" /\ ddl[i].cols # <<>> /\ ddl[i].name = name }

RelDecls(name) ==
    { i \in DOMAIN ddl :
        ddl[i].kind = "rel" /\ ddl[i].from # "" /\ ddl[i].to # "" /\ ddl[i].name = name }

\* The name-and-type pieces of a declaration's body.
Declared(stmt) == { i \in DOMAIN stmt.cols : Len(stmt.cols[i]) >= 2 }

\* The pieces among them that carry the phrase PRIMARY KEY.
Marked(stmt) ==
    { i \in Declared(stmt) :
        \E w \in 1..(Len(stmt.cols[i]) - 1) :
            /\ stmt.cols[i][w] \in {"PRIMARY", "primary", "Primary"}
            /\ stmt.cols[i][w + 1] \in {"KEY", "key", "Key"} }

\* C9 as stated: no edge table has a property column named id, and a node
\* table's primary key is the marked column or else its first declared column.
C9_SchemaInvariant ==
    pc = "parsed" =>
        /\ \A rel \in DOMAIN edge_tables.map :
              \A c \in DOMAIN edge_tables.map[rel].columns :
                  edge_tables.map[rel].columns[c][1] # "id"
        /\ \A name \in DOMAIN node_tables.map :
              LET stmt == ddl[SetMax(NodeDecls(name))]
                  pk == node_tables.map[name].pk_col IN
              IF Marked(stmt) # {}
              THEN \E i \in Marked(stmt) : pk = stmt.cols[i][1]
              ELSE Declared(stmt) # {} /\ pk = stmt.cols[SetMin(Declared(stmt))][1]

\* C9 amended: an edge table's property columns are exactly the declared
\* name-and-type pieces of its last declaration, in order, a column named id
\* included; a node table's primary key is the last column marked PRIMARY
\* KEY, else the first declared column, else the literal id when the
\* declaration has no name-and-type piece.
C9_SchemaInvariantAmended ==
    pc = "parsed" =>
        /\ \A rel \in DOMAIN edge_tables.map :
              LET stmt == ddl[SetMax(RelDecls(rel))]
                  columns == edge_tables.map[rel].columns IN
              /\ Len(columns) = Cardinality(Declared(stmt))
              /\ \A i \in Declared(stmt) :
                    columns[Cardinality({ j \in Declared(stmt) : j <= i })]
                        = <<stmt.cols[i][1], stmt.cols[i][2]>>
        /\ \A name \in DOMAIN node_tables.map :
              LET stmt == ddl[SetMax(NodeDecls(name))]
                  pk == node_tables.map[name].pk_col IN
              pk = IF Marked(stmt) # {} THEN stmt.cols[SetMax(Marked(stmt))][1]
                   ELSE IF Declared(stmt) # {}
                        THEN stmt.cols[SetMin(Declared(stmt))][1]
                        ELSE "id"

C9_Witness ==
    /\ pc = "parsed"
    /\ \E rel \in DOMAIN edge_tables.map :
          \E c \in DOMAIN edge_tables.map[rel].columns :
              edge_tables.map[rel].columns[c][1] = "id"
    /\ \E name \in DOMAIN node_tables.map :
          /\ node_tables.map[name].columns # <<>>
          /\ node_tables.map[name].pk_col # node_tables.map[name].columns[1][1]
    /\ \E name \in DOMAIN node_tables.map : node_tables.map[name].columns = <<>>

Occurrences(q, x) == Cardinality({ i \in DOMAIN q : q[i] = x })

\* C10: a name declared several times by the same kind of statement has
\* exactly one entry, that of its last declaration; a name no matching
\* statement declares has none.
C10_OverwriteNotAppend ==
    pc = "parsed" =>
        /\ DOMAIN node_tables.map = { s.name : s \in { ddl[i] : i \in DOMAIN ddl } }
                                        \ { n \in { ddl[i].name : i \in DOMAIN ddl } :
                                              NodeDecls(n) = {} }
        /\ DOMAIN edge_tables.map = { s.name : s \in { ddl[i] : i \in DOMAIN ddl } }
                                        \ { n \in { ddl[i].name : i \in DOMAIN ddl } :
                                              RelDecls(n) = {} }
        /\ \A name \in DOMAIN node_tables.map :
              LET last == ddl[SetMax(NodeDecls(name))] IN
              /\ Occurrences(node_tables.order, name) = 1
              /\ node_tables.map[name] = NodeEntry(last)
        /\ \A rel \in DOMAIN edge_tables.map :
              LET last == ddl[SetMax(RelDecls(rel))] IN
              /\ Occurrences(edge_tables.order, rel) = 1
              /\ edge_tables.map[rel] = RelEntry(last)

C10_Witness ==
    /\ pc = "parsed"
    /\ \E i, j \in DOMAIN ddl :
          /\ i < j
          /\ i \in NodeDecls(ddl[i].name)
          /\ j = SetMax(NodeDecls(ddl[i].name))
          /\ NodeEntry(ddl[i]) # NodeEntry(ddl[j])
    /\ \E i \in DOMAIN ddl : ~NodeMatches(ddl[i]) /\ ~RelMatches(ddl[i])

====
